---- MODULE Spec2Model ----
(***************************************************************************)
(* Model of the session token lifecycle manager of go-bluesky              *)
(* (client implementation: NewClient, Ready, Close, refresher,             *)
(* maybeRefreshJWT, refreshJWT and the JWT claims parsers).                *)
(*                                                                         *)
(* Time is counted in minutes: the mock clock, the "exp" claims and the    *)
(* two refresh thresholds are all integers on that one scale.              *)
(***************************************************************************)
EXTENDS Integers, FiniteSets, Sequences, TLC

(***************************************************************************)
(* Bounds of the model.                                                    *)
(***************************************************************************)
\* the clock advances from 0 up to MaxClock
MaxClock == 3
\* largest expiry a token can carry in the pure-policy specification
MaxExp == 9
\* the transport's refreshSession call counter saturates here
MaxCalls == 3
\* the caller invokes Close() at most this many times
MaxCloses == 2
\* goroutine slots available to detached async refresh tasks
MaxAsync == 2
\* a token handed to the parsers has at most this many dot-separated segments
MaxParts == 4
\* the clock of the timed specification runs up to MaxTime
MaxTime == 12

(***************************************************************************)
(* Program constants.                                                      *)
(***************************************************************************)
jwtAsyncRefreshThreshold == 5
jwtSyncRefreshThreshold == 2
\* capacity of the jwtAsyncRefresh channel: make(chan struct{}, 1)
jwtAsyncRefreshCap == 1
\* the pause NewClient gives the refresher when the caller has set none
DefaultPause == 5

AppPassScope == "com.atproto.appPass"
RefreshScope == "com.atproto.refresh"
MasterScope == "com.atproto.access"

(***************************************************************************)
(* Errors.  A Go error is modelled by its identity and by the set of       *)
(* sentinel errors it wraps (fmt.Errorf with %w), so that the identity     *)
(* comparison err == ErrX and errors.Is(err, ErrX) are different tests.    *)
(***************************************************************************)
NilErr == [id |-> "nil", wraps |-> {}]
ErrLoginUnauthorized == [id |-> "unauthorized", wraps |-> {}]
ErrMasterCredentials == [id |-> "Master credentials used", wraps |-> {}]
ErrSessionExpired == [id |-> "session expired", wraps |-> {}]
\* an error coming back from the xrpc transport
TransportErr == [id |-> "transport", wraps |-> {}]
\* fmt.Errorf("error decoding payload: %v", err)
DecodeErr == [id |-> "error decoding payload", wraps |-> {}]
\* fmt.Errorf("error parsing claims: %v", err)
ClaimsErr == [id |-> "error parsing claims", wraps |-> {}]
\* fmt.Errorf("Received an empty expiration ts")
EmptyExpErr == [id |-> "Received an empty expiration ts", wraps |-> {}]
\* fmt.Errorf("%w: %v", ErrLoginUnauthorized, err)
LoginFailedErr == [id |-> "unauthorized: transport", wraps |-> {ErrLoginUnauthorized.id}]
\* fmt.Errorf("%w: %w", ErrLoginUnauthorized, ErrMasterCredentials)
MasterRejectedErr ==
    [id |-> "unauthorized: Master credentials used",
     wraps |-> {ErrLoginUnauthorized.id, ErrMasterCredentials.id}]
\* fmt.Errorf("%w: refresh token was valid until %v", ErrSessionExpired, ...)
RefreshExpiredErr == [id |-> "session expired: refresh token was valid until", wraps |-> {ErrSessionExpired.id}]

\* errors.Is(err, target)
ErrorsIs(err, target) == err = target \/ target.id \in err.wraps

(***************************************************************************)
(* Tokens.  A token string is modelled by what the parser can see of it:   *)
(* the number of dot-separated segments, whether the second segment is     *)
(* base64/JSON, and the scope and exp claims of the payload.               *)
(***************************************************************************)
Jwt(scope, exp) == [parts |-> 3, kind |-> "claims", scope |-> scope, exp |-> exp]
\* a string with no dot at all
NoDotToken == [parts |-> 1, kind |-> "claims", scope |-> "", exp |-> 0]
\* second segment is not base64url
BadB64Token == [parts |-> 3, kind |-> "notBase64", scope |-> "", exp |-> 0]
\* second segment decodes but is not a JSON object
BadJsonToken == [parts |-> 3, kind |-> "notJson", scope |-> "", exp |-> 0]
NoToken == [parts |-> 0, kind |-> "none", scope |-> "", exp |-> 0]

NoClaims == [Scope |-> "", ExpiresAt |-> 0]
ParseResult(panic, claims, err) == [panic |-> panic, claims |-> claims, err |-> err]

\* parseATProtoClaims: strings.Split, parts[1], base64, json, exp == 0
parseATProtoClaims(jwt) ==
    IF jwt.parts < 2 THEN ParseResult(TRUE, NoClaims, NilErr)
    ELSE IF jwt.kind = "notBase64" THEN ParseResult(FALSE, NoClaims, DecodeErr)
    ELSE IF jwt.kind = "notJson" THEN ParseResult(FALSE, NoClaims, ClaimsErr)
    ELSE IF jwt.exp = 0 THEN ParseResult(FALSE, NoClaims, EmptyExpErr)
    ELSE ParseResult(FALSE, [Scope |-> jwt.scope, ExpiresAt |-> jwt.exp], NilErr)

\* parseAccessJwtClaims looking at the scope before the expiry
parseAccessJwtClaims_ScopeFirst(jwt) ==
    IF jwt.parts >= 2 /\ jwt.kind = "claims" /\ jwt.scope # AppPassScope
    THEN ParseResult(FALSE, NoClaims, MasterRejectedErr)
    ELSE parseATProtoClaims(jwt)

\* parseAccessJwtClaims without its scope check
parseAccessJwtClaims_NoScopeCheck(jwt) == parseATProtoClaims(jwt)

\* parseAccessJwtClaims: parseATProtoClaims, then the scope check
parseAccessJwtClaims(jwt) ==
    LET p == parseATProtoClaims(jwt)
    IN  IF p.panic \/ p.err # NilErr THEN p
        ELSE IF p.claims.Scope # AppPassScope
             THEN ParseResult(FALSE, NoClaims, MasterRejectedErr)
        ELSE p

\* parseRefreshJwtClaims applying the access path's scope check
parseRefreshJwtClaims_ScopeChecked(jwt) == parseAccessJwtClaims(jwt)

\* parseRefreshJwtClaims: no scope check
parseRefreshJwtClaims(jwt) == parseATProtoClaims(jwt)

\* time.Unix(claims.ExpiresAt, 0) on the model's time scale
timeUnix(exp) == exp

(***************************************************************************)
(* What the transport can answer.                                          *)
(***************************************************************************)
AccessExpiries == {0, 2, 5, 7}
RefreshExpiries == {0, 1, 7}
AccessTokens ==
    {Jwt(AppPassScope, e) : e \in AccessExpiries}
        \cup {Jwt(MasterScope, 0), Jwt(MasterScope, 7), NoDotToken, BadB64Token, BadJsonToken}
RefreshTokens ==
    {Jwt(RefreshScope, e) : e \in RefreshExpiries} \cup {NoDotToken, BadB64Token}

Session(a, r) == [AccessJwt |-> a, RefreshJwt |-> r, Handle |-> "test.bsky.social", Did |-> "did:plc:test"]
NoSession == [AccessJwt |-> NoToken, RefreshJwt |-> NoToken, Handle |-> "", Did |-> ""]
NoResponse == [err |-> NilErr, sess |-> NoSession]
\* a transport answer: an error, or a session output
Responses ==
    {[err |-> TransportErr, sess |-> NoSession]}
        \cup {[err |-> NilErr, sess |-> Session(a, r)] : a \in AccessTokens, r \in RefreshTokens}

(***************************************************************************)
(* State.                                                                  *)
(***************************************************************************)
VARIABLES
    clock,              \* clockInterface.Now()
    crashed,            \* an unrecovered panic has terminated the process
    describeCalls,      \* describeServer requests seen by the transport
    createCalls,        \* createSession requests seen by the transport
    refreshCalls,       \* refreshSession requests seen by the transport
    mainPc,             \* position of the caller inside NewClient
    ncErr,              \* error returned by NewClient
    createResp,         \* sess, err of ServerCreateSession while newClientInternal holds them
    ready,              \* client.ready
    accessJwtExpire,    \* client.accessJwtExpire
    refreshJwtExpire,   \* client.refreshJwtExpire
    auth,               \* client.client.Auth, the transport's credential slot
    jwtAsyncRefresh,    \* number of elements buffered in client.jwtAsyncRefresh
    jwtRefresherStop,   \* client.jwtRefresherStop: "nil" or "open"
    refreshLock,        \* set of goroutines holding client.refreshLock (empty: free)
    sched,              \* the refresher goroutine: position and locals
    rf,                 \* per goroutine: its refreshJWT frame
    closePc,            \* per caller: position inside Close()
    closeCalls,         \* Close() calls started
    closeReturns,       \* Close() calls that have returned nil
    search,             \* a caller's SearchPosts: position, and the credential it sent
    parse,              \* a token handed to the two claim parsers, and what they returned
    pause               \* the pause the refresher was started with: refresher(pause)

vars ==
    <<clock, crashed, describeCalls, createCalls, refreshCalls, mainPc, ncErr, createResp,
      ready, accessJwtExpire, refreshJwtExpire, auth, jwtAsyncRefresh, jwtRefresherStop,
      refreshLock, sched, rf, closePc, closeCalls, closeReturns, search,
      parse, pause>>

clientVars == <<ready, accessJwtExpire, refreshJwtExpire, auth, jwtAsyncRefresh, jwtRefresherStop>>
transportVars == <<describeCalls, createCalls, refreshCalls>>
loginVars == <<mainPc, ncErr, createResp>>
closeVars == <<closePc, closeCalls, closeReturns>>

\* goroutines that can run refreshJWT: the refresher, and the detached
\* tasks started by maybeRefreshJWT
Refresher == 0
AsyncIds == 1..MaxAsync
Goroutines == {Refresher} \cup AsyncIds

IdleFrame == [pc |-> "idle", cred |-> NoToken, sess |-> NoSession, err |-> NilErr]
SchedFrame(pc, now, invalid, needSync, needAsync, stopc) ==
    [pc |-> pc, now |-> now, invalidRefreshJwt |-> invalid,
     needSyncRefresh |-> needSync, needAsyncRefresh |-> needAsync, stopc |-> stopc]
SchedAt(pc) == SchedFrame(pc, 0, FALSE, FALSE, FALSE, "none")

Min(a, b) == IF a < b THEN a ELSE b

\* no SearchPosts call is under way
SearchIdle == [pc |-> "idle", cred |-> NoToken]

\* a parser that has not been called
NotParsed == [called |-> FALSE, panic |-> FALSE, claims |-> NoClaims, err |-> NilErr]
\* the parsers are not under study
NoParse == [jwt |-> NoToken, access |-> NotParsed, refresh |-> NotParsed]

\* Ready()
Ready == ready

Init ==
    /\ clock = 0
    /\ crashed = FALSE
    /\ describeCalls = 0
    /\ createCalls = 0
    /\ refreshCalls = 0
    /\ mainPc = "describe"
    /\ ncErr = NilErr
    /\ createResp = NoResponse
    /\ ready = FALSE
    /\ accessJwtExpire = 0
    /\ refreshJwtExpire = 0
    /\ auth = NoSession
    /\ jwtAsyncRefresh = 0
    /\ jwtRefresherStop = "nil"
    /\ refreshLock = {}
    /\ sched = SchedAt("none")
    /\ rf = [g \in Goroutines |-> IdleFrame]
    /\ closePc = [c \in {"main"} |-> "idle"]
    /\ closeCalls = 0
    /\ closeReturns = 0
    /\ search = SearchIdle
    /\ parse = NoParse
    /\ pause = DefaultPause

(***************************************************************************)
(* The mock clock is advanced by the environment.                          *)
(***************************************************************************)
Tick ==
    /\ clock < MaxClock
    /\ clock' = clock + 1
    /\ UNCHANGED <<search, parse, pause, crashed, transportVars, loginVars, clientVars, refreshLock, sched, rf,
                   closeVars>>

(***************************************************************************)
(* NewClient / newClientInternal.                                          *)
(***************************************************************************)
\* return nil, err
NewClientFail(err) ==
    /\ mainPc' = "failed"
    /\ ncErr' = err
    /\ crashed' = crashed

\* a panic on the caller's goroutine inside newClientInternal
NewClientPanic ==
    /\ crashed' = TRUE
    /\ UNCHANGED <<mainPc, ncErr>>

\* atproto.ServerDescribeServer: the connectivity sanity check
DescribeServer ==
    /\ ~crashed
    /\ mainPc = "describe"
    /\ describeCalls' = describeCalls + 1
    /\ \E resp \in {NilErr, TransportErr} :
          IF resp # NilErr
          THEN NewClientFail(resp)
          ELSE mainPc' = "create" /\ UNCHANGED <<ncErr, crashed>>
    /\ UNCHANGED <<clock, search, parse, pause, createResp, createCalls, refreshCalls, clientVars, refreshLock, sched, rf, closeVars>>

\* a login that hands the transport's error on as it is
CreateSession_BareError ==
    /\ ~crashed
    /\ mainPc = "create"
    /\ createCalls' = createCalls + 1
    /\ \E resp \in Responses :
          /\ createResp' = resp
          /\ LET accessJwtClaims == parseAccessJwtClaims(resp.sess.AccessJwt)
                 refreshJwtClaims == parseRefreshJwtClaims(resp.sess.RefreshJwt)
             IN  IF resp.err # NilErr THEN NewClientFail(resp.err)
                 ELSE IF accessJwtClaims.panic THEN NewClientPanic
                 ELSE IF accessJwtClaims.err # NilErr THEN NewClientFail(accessJwtClaims.err)
                 ELSE IF refreshJwtClaims.panic THEN NewClientPanic
                 ELSE IF refreshJwtClaims.err # NilErr THEN NewClientFail(refreshJwtClaims.err)
                 ELSE /\ mainPc' = "init"
                      /\ UNCHANGED <<ncErr, crashed>>
    /\ UNCHANGED <<clock, search, parse, pause, describeCalls, refreshCalls, clientVars, refreshLock, sched, rf, closeVars>>

\* atproto.ServerCreateSession, then the claims of both tokens are parsed
CreateSession ==
    /\ ~crashed
    /\ mainPc = "create"
    /\ createCalls' = createCalls + 1
    /\ \E resp \in Responses :
          /\ createResp' = resp
          /\ LET accessJwtClaims == parseAccessJwtClaims(resp.sess.AccessJwt)
                 refreshJwtClaims == parseRefreshJwtClaims(resp.sess.RefreshJwt)
             IN  IF resp.err # NilErr THEN NewClientFail(LoginFailedErr)
                 ELSE IF accessJwtClaims.panic THEN NewClientPanic
                 ELSE IF accessJwtClaims.err # NilErr THEN NewClientFail(accessJwtClaims.err)
                 ELSE IF refreshJwtClaims.panic THEN NewClientPanic
                 ELSE IF refreshJwtClaims.err # NilErr THEN NewClientFail(refreshJwtClaims.err)
                 ELSE /\ mainPc' = "init"
                      /\ UNCHANGED <<ncErr, crashed>>
    /\ UNCHANGED <<clock, search, parse, pause, describeCalls, refreshCalls, clientVars, refreshLock, sched, rf, closeVars>>

\* a refresher whose loop waits for the timer before its first evaluation
NewClientInit_WaitsFirst ==
    /\ ~crashed
    /\ mainPc = "init"
    /\ ready' = FALSE
    /\ auth' = createResp.sess
    /\ accessJwtExpire' = timeUnix(parseAccessJwtClaims(createResp.sess.AccessJwt).claims.ExpiresAt)
    /\ refreshJwtExpire' = timeUnix(parseRefreshJwtClaims(createResp.sess.RefreshJwt).claims.ExpiresAt)
    /\ jwtAsyncRefresh' = 0
    /\ jwtRefresherStop' = "open"
    /\ sched' = SchedAt("select")
    /\ mainPc' = "setReady"
    /\ createResp' = NoResponse
    /\ UNCHANGED <<clock, search, parse, pause, crashed, transportVars, ncErr, refreshLock, rf, closeVars>>

\* the client is constructed, the credential slot and the expirations are
\* set, the two channels are made and the refresher goroutine is started
NewClientInit ==
    /\ ~crashed
    /\ mainPc = "init"
    /\ ready' = FALSE
    /\ auth' = createResp.sess
    /\ accessJwtExpire' = timeUnix(parseAccessJwtClaims(createResp.sess.AccessJwt).claims.ExpiresAt)
    /\ refreshJwtExpire' = timeUnix(parseRefreshJwtClaims(createResp.sess.RefreshJwt).claims.ExpiresAt)
    /\ jwtAsyncRefresh' = 0
    /\ jwtRefresherStop' = "open"
    /\ sched' = SchedAt("m308")
    /\ mainPc' = "setReady"
    /\ createResp' = NoResponse
    /\ UNCHANGED <<clock, search, parse, pause, crashed, transportVars, ncErr, refreshLock, rf, closeVars>>

\* newClientInternal returning without setting c.ready
NewClientReturn_NotReady ==
    /\ ~crashed
    /\ mainPc = "setReady"
    /\ mainPc' = "returned"
    /\ UNCHANGED <<clock, search, parse, pause, crashed, transportVars, ncErr, createResp, clientVars, refreshLock, sched, rf, closeVars>>

\* c.ready = true; return c, nil
NewClientReturn ==
    /\ ~crashed
    /\ mainPc = "setReady"
    /\ ready' = TRUE
    /\ mainPc' = "returned"
    /\ UNCHANGED <<clock, search, parse, pause, crashed, transportVars, ncErr, createResp, accessJwtExpire, refreshJwtExpire,
                   auth, jwtAsyncRefresh, jwtRefresherStop, refreshLock, sched, rf, closeVars>>

(***************************************************************************)
(* refreshJWT, run by goroutine g (the refresher inline, or a detached     *)
(* async task).                                                            *)
(***************************************************************************)
RefreshReturn(g, err) ==
    rf' = [rf EXCEPT ![g] = [pc |-> "ret", cred |-> NoToken, sess |-> NoSession, err |-> err]]

\* c.clock.Now().After(c.refreshJwtExpire)
refreshTokenTimedOut(now, refreshExpire) == now > refreshExpire

\* a refresh request that goes out with the access token
refreshCredential_Access(a) == a.AccessJwt
\* newClient.Auth is a copy of c.client.Auth with AccessJwt = RefreshJwt; the
\* request presents newClient.Auth.AccessJwt
refreshCredential(a) == [a EXCEPT !.AccessJwt = a.RefreshJwt].AccessJwt

\* a refreshJWT that does not wait for the lock
RefreshBegin_NoLock(g) ==
    /\ ~crashed
    /\ rf[g].pc = "lock"
    /\ IF refreshTokenTimedOut(clock, refreshJwtExpire)
       THEN /\ RefreshReturn(g, RefreshExpiredErr)
            /\ UNCHANGED <<refreshLock, refreshCalls>>
       ELSE /\ refreshLock' = refreshLock \cup {g}
            /\ refreshCalls' = Min(refreshCalls + 1, MaxCalls)
            /\ rf' = [rf EXCEPT ![g].pc = "await", ![g].cred = refreshCredential(auth)]
    /\ UNCHANGED <<clock, search, parse, pause, crashed, describeCalls, createCalls, loginVars, clientVars, sched, closeVars>>

\* a refreshJWT that swaps the tokens in the shared credential slot itself
RefreshBegin_SharedSlot(g) ==
    /\ ~crashed
    /\ rf[g].pc = "lock"
    /\ refreshLock = {}
    /\ IF refreshTokenTimedOut(clock, refreshJwtExpire)
       THEN /\ RefreshReturn(g, RefreshExpiredErr)
            /\ UNCHANGED <<refreshLock, refreshCalls, auth>>
       ELSE /\ refreshLock' = {g}
            /\ refreshCalls' = Min(refreshCalls + 1, MaxCalls)
            /\ auth' = [auth EXCEPT !.AccessJwt = auth.RefreshJwt]
            /\ rf' = [rf EXCEPT ![g].pc = "await", ![g].cred = refreshCredential(auth)]
    /\ UNCHANGED <<clock, search, parse, pause, crashed, describeCalls, createCalls, loginVars, ready,
                   accessJwtExpire, refreshJwtExpire, jwtAsyncRefresh, jwtRefresherStop, sched, closeVars>>

\* refreshLock.Lock(), the expiry re-check, and the request of
\* ServerRefreshSession leaving for the transport
RefreshBegin(g) ==
    /\ ~crashed
    /\ rf[g].pc = "lock"
    /\ refreshLock = {}
    /\ IF refreshTokenTimedOut(clock, refreshJwtExpire)
       THEN /\ RefreshReturn(g, RefreshExpiredErr)
            /\ UNCHANGED <<refreshLock, refreshCalls>>
       ELSE /\ refreshLock' = {g}
            /\ refreshCalls' = Min(refreshCalls + 1, MaxCalls)
            /\ rf' = [rf EXCEPT ![g].pc = "await", ![g].cred = refreshCredential(auth)]
    /\ UNCHANGED <<clock, search, parse, pause, crashed, describeCalls, createCalls, loginVars, clientVars, sched, closeVars>>

\* how refreshJWT parses the access token of the refresh answer
refreshParseAccess(jwt) == parseATProtoClaims(jwt)

\* a refreshJWT that stores the returned tokens before it has parsed them
RefreshResponse_StoresFirst(g) ==
    /\ ~crashed
    /\ rf[g].pc = "await"
    /\ \E resp \in Responses :
          LET refreshTokenClaims == parseATProtoClaims(resp.sess.RefreshJwt)
              accessTokenClaims == refreshParseAccess(resp.sess.AccessJwt)
              fail(err) == /\ RefreshReturn(g, err)
                           /\ refreshLock' = {}
                           /\ crashed' = crashed
                           /\ auth' = IF resp.err = NilErr THEN resp.sess ELSE auth
                           /\ UNCHANGED <<ready, accessJwtExpire, refreshJwtExpire,
                                          jwtAsyncRefresh, jwtRefresherStop>>
              panic == /\ crashed' = TRUE
                       /\ refreshLock' = {}
                       /\ rf' = rf
                       /\ UNCHANGED clientVars
          IN  IF resp.err # NilErr THEN fail(resp.err)
              ELSE IF refreshTokenClaims.panic THEN panic
              ELSE IF refreshTokenClaims.err # NilErr THEN fail(refreshTokenClaims.err)
              ELSE IF accessTokenClaims.panic THEN panic
              ELSE IF accessTokenClaims.err # NilErr THEN fail(accessTokenClaims.err)
              ELSE /\ rf' = [rf EXCEPT ![g] = [pc |-> "w397", cred |-> NoToken, sess |-> resp.sess, err |-> NilErr]]
                   /\ UNCHANGED <<refreshLock, crashed, clientVars>>
    /\ UNCHANGED <<clock, search, parse, pause, transportVars, loginVars, sched, closeVars>>

\* a refreshJWT that unlocks only on its successful path
RefreshResponse_KeepsLockOnError(g) ==
    /\ ~crashed
    /\ rf[g].pc = "await"
    /\ \E resp \in Responses :
          LET refreshTokenClaims == parseATProtoClaims(resp.sess.RefreshJwt)
              accessTokenClaims == refreshParseAccess(resp.sess.AccessJwt)
              fail(err) == /\ RefreshReturn(g, err)
                           /\ refreshLock' = refreshLock
                           /\ crashed' = crashed
              panic == /\ crashed' = TRUE
                       /\ refreshLock' = {}
                       /\ rf' = rf
          IN  IF resp.err # NilErr THEN fail(resp.err)
              ELSE IF refreshTokenClaims.panic THEN panic
              ELSE IF refreshTokenClaims.err # NilErr THEN fail(refreshTokenClaims.err)
              ELSE IF accessTokenClaims.panic THEN panic
              ELSE IF accessTokenClaims.err # NilErr THEN fail(accessTokenClaims.err)
              ELSE /\ rf' = [rf EXCEPT ![g] = [pc |-> "w397", cred |-> NoToken, sess |-> resp.sess, err |-> NilErr]]
                   /\ UNCHANGED <<refreshLock, crashed>>
    /\ UNCHANGED <<clock, search, parse, pause, transportVars, loginVars, clientVars, sched, closeVars>>

\* ServerRefreshSession returns; both tokens are parsed (refresh token first)
RefreshResponse(g) ==
    /\ ~crashed
    /\ rf[g].pc = "await"
    /\ \E resp \in Responses :
          LET refreshTokenClaims == parseATProtoClaims(resp.sess.RefreshJwt)
              accessTokenClaims == refreshParseAccess(resp.sess.AccessJwt)
              fail(err) == /\ RefreshReturn(g, err)
                           /\ refreshLock' = {}
                           /\ crashed' = crashed
              panic == /\ crashed' = TRUE
                       /\ refreshLock' = {}
                       /\ rf' = rf
          IN  IF resp.err # NilErr THEN fail(resp.err)
              ELSE IF refreshTokenClaims.panic THEN panic
              ELSE IF refreshTokenClaims.err # NilErr THEN fail(refreshTokenClaims.err)
              ELSE IF accessTokenClaims.panic THEN panic
              ELSE IF accessTokenClaims.err # NilErr THEN fail(accessTokenClaims.err)
              ELSE /\ rf' = [rf EXCEPT ![g] = [pc |-> "w397", cred |-> NoToken, sess |-> resp.sess, err |-> NilErr]]
                   /\ UNCHANGED <<refreshLock, crashed>>
    /\ UNCHANGED <<clock, search, parse, pause, transportVars, loginVars, clientVars, sched, closeVars>>

\* an installation that leaves the old refresh token in the credential slot
RefreshWriteAuth_KeepsRefreshToken(g) ==
    /\ ~crashed
    /\ rf[g].pc = "w397"
    /\ auth' = [rf[g].sess EXCEPT !.RefreshJwt = auth.RefreshJwt]
    /\ rf' = [rf EXCEPT ![g].pc = "w403"]
    /\ UNCHANGED <<clock, search, parse, pause, crashed, transportVars, loginVars, ready, accessJwtExpire, refreshJwtExpire,
                   jwtAsyncRefresh, jwtRefresherStop, refreshLock, sched, closeVars>>

\* c.client.Auth = &xrpc.AuthInfo{...}
RefreshWriteAuth(g) ==
    /\ ~crashed
    /\ rf[g].pc = "w397"
    /\ auth' = rf[g].sess
    /\ rf' = [rf EXCEPT ![g].pc = "w403"]
    /\ UNCHANGED <<clock, search, parse, pause, crashed, transportVars, loginVars, ready, accessJwtExpire, refreshJwtExpire,
                   jwtAsyncRefresh, jwtRefresherStop, refreshLock, sched, closeVars>>

\* a store of the refresh token's expiry into accessJwtExpire
RefreshWriteAccessExpire_FromRefreshToken(g) ==
    /\ ~crashed
    /\ rf[g].pc = "w403"
    /\ accessJwtExpire' = timeUnix(parseATProtoClaims(rf[g].sess.RefreshJwt).claims.ExpiresAt)
    /\ rf' = [rf EXCEPT ![g].pc = "w404"]
    /\ UNCHANGED <<clock, search, parse, pause, crashed, transportVars, loginVars, ready, refreshJwtExpire, auth,
                   jwtAsyncRefresh, jwtRefresherStop, refreshLock, sched, closeVars>>

\* c.accessJwtExpire = newAccessTokenExpirationTime
RefreshWriteAccessExpire(g) ==
    /\ ~crashed
    /\ rf[g].pc = "w403"
    /\ accessJwtExpire' = timeUnix(refreshParseAccess(rf[g].sess.AccessJwt).claims.ExpiresAt)
    /\ rf' = [rf EXCEPT ![g].pc = "w404"]
    /\ UNCHANGED <<clock, search, parse, pause, crashed, transportVars, loginVars, ready, refreshJwtExpire, auth,
                   jwtAsyncRefresh, jwtRefresherStop, refreshLock, sched, closeVars>>

\* c.refreshJwtExpire = newRefreshTokenExpirationTime; return nil (deferred Unlock)
RefreshWriteRefreshExpire(g) ==
    /\ ~crashed
    /\ rf[g].pc = "w404"
    /\ refreshJwtExpire' = timeUnix(parseATProtoClaims(rf[g].sess.RefreshJwt).claims.ExpiresAt)
    /\ refreshLock' = {}
    /\ RefreshReturn(g, NilErr)
    /\ UNCHANGED <<clock, search, parse, pause, crashed, transportVars, loginVars, ready, accessJwtExpire, auth,
                   jwtAsyncRefresh, jwtRefresherStop, sched, closeVars>>

\* the detached task giving the slot back only after a successful refresh
AsyncDone_LeakOnError(k) ==
    /\ ~crashed
    /\ rf[k].pc = "ret"
    /\ jwtAsyncRefresh > 0
    /\ jwtAsyncRefresh' = IF rf[k].err = NilErr THEN jwtAsyncRefresh - 1 ELSE jwtAsyncRefresh
    /\ rf' = [rf EXCEPT ![k] = IdleFrame]
    /\ UNCHANGED <<clock, search, parse, pause, crashed, transportVars, loginVars, ready, accessJwtExpire, refreshJwtExpire,
                   auth, jwtRefresherStop, refreshLock, sched, closeVars>>
\* the detached task of maybeRefreshJWT: refreshJWT has returned, the error
\* is logged and the single-flight slot is given back
AsyncDone(k) ==
    /\ ~crashed
    /\ rf[k].pc = "ret"
    /\ jwtAsyncRefresh > 0
    /\ jwtAsyncRefresh' = jwtAsyncRefresh - 1
    /\ rf' = [rf EXCEPT ![k] = IdleFrame]
    /\ UNCHANGED <<clock, search, parse, pause, crashed, transportVars, loginVars, ready, accessJwtExpire, refreshJwtExpire,
                   auth, jwtRefresherStop, refreshLock, sched, closeVars>>

(***************************************************************************)
(* maybeRefreshJWT, run by the refresher goroutine.  The four locals are   *)
(* computed from unlocked reads of the clock and of the two expirations.   *)
(***************************************************************************)
\* c.refreshJwtExpire.Before(c.clock.Now())
invalidRefreshJwt(refreshExpire, now) == refreshExpire < now
\* the sync test with <= in place of <
needSyncRefresh_Inclusive(accessExpire, now) == accessExpire - now <= jwtSyncRefreshThreshold
\* c.accessJwtExpire.Sub(now) < jwtSyncRefreshThreshold
needSyncRefresh(accessExpire, now) == accessExpire - now < jwtSyncRefreshThreshold
\* an async test that looks no further ahead than the sync window
needAsyncRefresh_SyncWindowOnly(accessExpire, now) == accessExpire - now < jwtSyncRefreshThreshold
\* the async test with <= in place of <
needAsyncRefresh_Inclusive(accessExpire, now) == accessExpire - now <= jwtAsyncRefreshThreshold
\* c.accessJwtExpire.Sub(now) < jwtAsyncRefreshThreshold
needAsyncRefresh(accessExpire, now) == accessExpire - now < jwtAsyncRefreshThreshold

schedUnchanged == <<crashed, transportVars, loginVars, clientVars, refreshLock, rf, closeVars>>

\* now = c.clock.Now()
SchedReadNow ==
    /\ ~crashed
    /\ sched.pc = "m308"
    /\ sched' = [sched EXCEPT !.pc = "m309", !.now = clock]
    /\ UNCHANGED <<clock, search, parse, pause, schedUnchanged>>

\* invalidRefreshJwt = c.refreshJwtExpire.Before(c.clock.Now())
SchedReadInvalid ==
    /\ ~crashed
    /\ sched.pc = "m309"
    /\ sched' = [sched EXCEPT !.pc = "m310",
                              !.invalidRefreshJwt = invalidRefreshJwt(refreshJwtExpire, clock)]
    /\ UNCHANGED <<clock, search, parse, pause, schedUnchanged>>

\* needSyncRefresh = c.accessJwtExpire.Sub(now) < jwtSyncRefreshThreshold
SchedReadSync ==
    /\ ~crashed
    /\ sched.pc = "m310"
    /\ sched' = [sched EXCEPT !.pc = "m311",
                              !.needSyncRefresh = needSyncRefresh(accessJwtExpire, sched.now)]
    /\ UNCHANGED <<clock, search, parse, pause, schedUnchanged>>

\* needAsyncRefresh = c.accessJwtExpire.Sub(now) < jwtAsyncRefreshThreshold
SchedReadAsync ==
    /\ ~crashed
    /\ sched.pc = "m311"
    /\ sched' = [sched EXCEPT !.pc = "decide",
                              !.needAsyncRefresh = needAsyncRefresh(accessJwtExpire, sched.now)]
    /\ UNCHANGED <<clock, search, parse, pause, schedUnchanged>>

\* the branch maybeRefreshJWT takes on its three locals
Policy(invalid, needSync, needAsync) ==
    IF invalid THEN "EXPIRED"
    ELSE IF needSync THEN "SYNC"
    ELSE IF needAsync THEN "ASYNC"
    ELSE "NONE"

SchedPolicy == Policy(sched.invalidRefreshJwt, sched.needSyncRefresh, sched.needAsyncRefresh)

\* an EXPIRED branch that also empties the credential slot
SchedExpired_ClearsSession ==
    /\ ~crashed
    /\ sched.pc = "decide"
    /\ SchedPolicy = "EXPIRED"
    /\ ready' = FALSE
    /\ auth' = NoSession
    /\ sched' = SchedAt("expired")
    /\ UNCHANGED <<clock, search, parse, pause, crashed, transportVars, loginVars, accessJwtExpire, refreshJwtExpire,
                   jwtAsyncRefresh, jwtRefresherStop, refreshLock, rf, closeVars>>

\* if invalidRefreshJwt: c.ready = false; return ErrSessionExpired.
\* The refresher sees err == ErrSessionExpired and returns.
SchedExpired ==
    /\ ~crashed
    /\ sched.pc = "decide"
    /\ SchedPolicy = "EXPIRED"
    /\ ready' = FALSE
    /\ sched' = SchedAt("expired")
    /\ UNCHANGED <<clock, search, parse, pause, crashed, transportVars, loginVars, accessJwtExpire, refreshJwtExpire, auth,
                   jwtAsyncRefresh, jwtRefresherStop, refreshLock, rf, closeVars>>

\* a SYNC branch that yields to a background refresh holding the slot
SchedSync_Guarded ==
    /\ ~crashed
    /\ sched.pc = "decide"
    /\ SchedPolicy = "SYNC"
    /\ IF jwtAsyncRefresh < jwtAsyncRefreshCap
       THEN sched' = SchedAt("sync") /\ rf' = [rf EXCEPT ![Refresher].pc = "lock"]
       ELSE sched' = SchedAt("select") /\ rf' = rf
    /\ UNCHANGED <<clock, search, parse, pause, crashed, transportVars, loginVars, clientVars, refreshLock, closeVars>>

\* if needSyncRefresh: return c.refreshJWT()
SchedSync ==
    /\ ~crashed
    /\ sched.pc = "decide"
    /\ SchedPolicy = "SYNC"
    /\ sched' = SchedAt("sync")
    /\ rf' = [rf EXCEPT ![Refresher].pc = "lock"]
    /\ UNCHANGED <<clock, search, parse, pause, crashed, transportVars, loginVars, clientVars, refreshLock, closeVars>>

\* a refresher that gives up on any error
refresherStops_AnyError(err) == err # NilErr
\* the refresher's test of the error maybeRefreshJWT returned
refresherStops(err) == err = ErrSessionExpired

\* the inline refreshJWT has returned to maybeRefreshJWT and on to the
\* refresher loop: err == ErrSessionExpired ends the loop
SchedSyncReturn ==
    /\ ~crashed
    /\ sched.pc = "sync"
    /\ rf[Refresher].pc = "ret"
    /\ sched' = IF refresherStops(rf[Refresher].err) THEN SchedAt("expired") ELSE SchedAt("select")
    /\ rf' = [rf EXCEPT ![Refresher] = IdleFrame]
    /\ UNCHANGED <<clock, search, parse, pause, crashed, transportVars, loginVars, clientVars, refreshLock, closeVars>>

\* a send that always finds room (an unbounded channel)
asyncSlotFree_Always(buffered) == TRUE

\* select { case c.jwtAsyncRefresh <- struct{}{}: ... default: ... }:
\* whether the non-blocking send finds room in the channel
asyncSlotFree(buffered) == buffered < jwtAsyncRefreshCap

\* an ASYNC branch that runs refreshJWT inline instead of detaching a task
SchedAsyncStart_Inline ==
    /\ ~crashed
    /\ sched.pc = "decide"
    /\ SchedPolicy = "ASYNC"
    /\ asyncSlotFree(jwtAsyncRefresh)
    /\ rf' = [rf EXCEPT ![Refresher].pc = "lock"]
    /\ jwtAsyncRefresh' = jwtAsyncRefresh
    /\ sched' = SchedAt("sync")
    /\ UNCHANGED <<clock, search, parse, pause, crashed, transportVars, loginVars, ready, accessJwtExpire, refreshJwtExpire,
                   auth, jwtRefresherStop, refreshLock, closeVars>>

\* an ASYNC branch that starts the task and then waits for it to finish
SchedAsyncStart_Joins ==
    /\ ~crashed
    /\ sched.pc = "decide"
    /\ SchedPolicy = "ASYNC"
    /\ asyncSlotFree(jwtAsyncRefresh)
    /\ \E k \in AsyncIds :
          /\ rf[k].pc = "idle"
          /\ \A j \in AsyncIds : rf[j].pc = "idle" => k <= j
          /\ rf' = [rf EXCEPT ![k].pc = "lock"]
    /\ jwtAsyncRefresh' = jwtAsyncRefresh + 1
    /\ sched' = SchedAt("sync")
    /\ UNCHANGED <<clock, search, parse, pause, crashed, transportVars, loginVars, ready, accessJwtExpire, refreshJwtExpire,
                   auth, jwtRefresherStop, refreshLock, closeVars>>

\* needAsyncRefresh and the send succeeded: go func() { refreshJWT ... }()
SchedAsyncStart ==
    /\ ~crashed
    /\ sched.pc = "decide"
    /\ SchedPolicy = "ASYNC"
    /\ asyncSlotFree(jwtAsyncRefresh)
    /\ \E k \in AsyncIds :
          /\ rf[k].pc = "idle"
          /\ \A j \in AsyncIds : rf[j].pc = "idle" => k <= j
          /\ rf' = [rf EXCEPT ![k].pc = "lock"]
    /\ jwtAsyncRefresh' = jwtAsyncRefresh + 1
    /\ sched' = SchedAt("select")
    /\ UNCHANGED <<clock, search, parse, pause, crashed, transportVars, loginVars, ready, accessJwtExpire, refreshJwtExpire,
                   auth, jwtRefresherStop, refreshLock, closeVars>>

\* needAsyncRefresh and the channel is full: default branch, return nil
SchedAsyncSkip ==
    /\ ~crashed
    /\ sched.pc = "decide"
    /\ SchedPolicy = "ASYNC"
    /\ ~asyncSlotFree(jwtAsyncRefresh)
    /\ sched' = SchedAt("select")
    /\ UNCHANGED <<clock, search, parse, pause, schedUnchanged>>

\* neither refresh is needed: return nil
SchedNone ==
    /\ ~crashed
    /\ sched.pc = "decide"
    /\ SchedPolicy = "NONE"
    /\ sched' = SchedAt("select")
    /\ UNCHANGED <<clock, search, parse, pause, schedUnchanged>>

\* case <-time.After(pause): next iteration of the loop
SchedTimer ==
    /\ ~crashed
    /\ sched.pc = "select"
    /\ sched' = SchedAt("m308")
    /\ UNCHANGED <<clock, search, parse, pause, schedUnchanged>>

\* a refresher that takes the stop request in the middle of its inline refresh
SchedStop_Interrupts(c) ==
    /\ ~crashed
    /\ sched.pc \in {"select", "sync"}
    /\ closePc[c] = "send"
    /\ sched' = [SchedAt("ack") EXCEPT !.stopc = c]
    /\ closePc' = [closePc EXCEPT ![c] = "recv"]
    /\ UNCHANGED <<clock, search, parse, pause, crashed, transportVars, loginVars, clientVars, refreshLock, rf,
                   closeCalls, closeReturns>>

\* case stopc := <-c.jwtRefresherStop, meeting the send of Close() by caller c
SchedStop(c) ==
    /\ ~crashed
    /\ sched.pc = "select"
    /\ closePc[c] = "send"
    /\ sched' = [SchedAt("ack") EXCEPT !.stopc = c]
    /\ closePc' = [closePc EXCEPT ![c] = "recv"]
    /\ UNCHANGED <<clock, search, parse, pause, crashed, transportVars, loginVars, clientVars, refreshLock, rf,
                   closeCalls, closeReturns>>

\* a refresher that acknowledges the stop and goes on with its loop
SchedAck_KeepsRunning ==
    /\ ~crashed
    /\ sched.pc = "ack"
    /\ closePc[sched.stopc] = "recv"
    /\ sched' = SchedAt("select")
    /\ closePc' = [closePc EXCEPT ![sched.stopc] = "c267"]
    /\ UNCHANGED <<clock, search, parse, pause, crashed, transportVars, loginVars, clientVars, refreshLock, rf,
                   closeCalls, closeReturns>>

\* stopc <- struct{}{}, meeting <-stopc of that Close(); the refresher returns
SchedAck ==
    /\ ~crashed
    /\ sched.pc = "ack"
    /\ closePc[sched.stopc] = "recv"
    /\ sched' = SchedAt("stopped")
    /\ closePc' = [closePc EXCEPT ![sched.stopc] = "c267"]
    /\ UNCHANGED <<clock, search, parse, pause, crashed, transportVars, loginVars, clientVars, refreshLock, rf,
                   closeCalls, closeReturns>>

(***************************************************************************)
(* Close(), run by caller c on the client NewClient returned.              *)
(***************************************************************************)
\* if c.jwtRefresherStop != nil
refresherRunning(stop) == stop # "nil"

\* the call, the two log lines and the test of c.jwtRefresherStop
CloseBegin(c) ==
    /\ ~crashed
    /\ mainPc = "returned"
    /\ closePc[c] = "idle"
    /\ closeCalls < MaxCloses
    /\ closeCalls' = closeCalls + 1
    /\ closePc' = [closePc EXCEPT ![c] = IF refresherRunning(jwtRefresherStop) THEN "c264" ELSE "c270"]
    /\ UNCHANGED <<clock, search, parse, pause, crashed, transportVars, loginVars, clientVars, refreshLock, sched, rf,
                   closeReturns>>

\* stopc := make(chan struct{}); c.jwtRefresherStop <- stopc starts: the
\* channel field is read, and the send waits for a receiver (a send on a
\* nil channel waits forever)
CloseSend(c) ==
    /\ ~crashed
    /\ closePc[c] = "c264"
    /\ closePc' = [closePc EXCEPT ![c] = IF jwtRefresherStop = "open" THEN "send" ELSE "sendNil"]
    /\ UNCHANGED <<clock, search, parse, pause, crashed, transportVars, loginVars, clientVars, refreshLock, sched, rf,
                   closeCalls, closeReturns>>

\* Close() leaving c.jwtRefresherStop set after the handshake
CloseClearStop_KeepsChannel(c) ==
    /\ ~crashed
    /\ closePc[c] = "c267"
    /\ closePc' = [closePc EXCEPT ![c] = "c270"]
    /\ UNCHANGED <<clock, search, parse, pause, crashed, transportVars, loginVars, clientVars, refreshLock, sched, rf,
                   closeCalls, closeReturns>>

\* c.jwtRefresherStop = nil
CloseClearStop(c) ==
    /\ ~crashed
    /\ closePc[c] = "c267"
    /\ jwtRefresherStop' = "nil"
    /\ closePc' = [closePc EXCEPT ![c] = "c270"]
    /\ UNCHANGED <<clock, search, parse, pause, crashed, transportVars, loginVars, ready, accessJwtExpire, refreshJwtExpire,
                   auth, jwtAsyncRefresh, refreshLock, sched, rf, closeCalls, closeReturns>>

\* c.ready = false; return nil
CloseReturn(c) ==
    /\ ~crashed
    /\ closePc[c] = "c270"
    /\ ready' = FALSE
    /\ closePc' = [closePc EXCEPT ![c] = "idle"]
    /\ closeReturns' = closeReturns + 1
    /\ UNCHANGED <<clock, search, parse, pause, crashed, transportVars, loginVars, accessJwtExpire, refreshJwtExpire, auth,
                   jwtAsyncRefresh, jwtRefresherStop, refreshLock, sched, rf, closeCalls>>

(***************************************************************************)
(* SearchPosts: the one business call of the client.  It builds the        *)
(* parameters and hands the request to the XRPC client, which sends it     *)
(* with the access token of the credential slot.  It consults neither      *)
(* c.ready nor c.refreshLock.                                              *)
(***************************************************************************)
\* c.client.Do(ctx, xrpc.Query, "", "app.bsky.feed.searchPosts", params, nil, &out)
SearchPosts ==
    /\ ~crashed
    /\ mainPc = "returned"
    /\ search.pc = "idle"
    /\ search' = [pc |-> "sent", cred |-> auth.AccessJwt]
    /\ UNCHANGED <<clock, parse, pause, crashed, transportVars, loginVars, clientVars, refreshLock, sched, rf,
                   closeVars>>

\* the transport answers; SearchPosts returns (nil, err) or (&response, nil)
SearchPostsReturn ==
    /\ ~crashed
    /\ search.pc = "sent"
    /\ search' = SearchIdle
    /\ UNCHANGED <<clock, parse, pause, crashed, transportVars, loginVars, clientVars, refreshLock, sched, rf,
                   closeVars>>

(***************************************************************************)
(* The program.                                                            *)
(***************************************************************************)
Next ==
    \/ Tick
    \/ DescribeServer
    \/ CreateSession
    \/ NewClientInit
    \/ NewClientReturn
    \/ \E g \in Goroutines : RefreshBegin(g)
    \/ \E g \in Goroutines : RefreshResponse(g)
    \/ \E g \in Goroutines : RefreshWriteAuth(g)
    \/ \E g \in Goroutines : RefreshWriteAccessExpire(g)
    \/ \E g \in Goroutines : RefreshWriteRefreshExpire(g)
    \/ \E k \in AsyncIds : AsyncDone(k)
    \/ SchedReadNow
    \/ SchedReadInvalid
    \/ SchedReadSync
    \/ SchedReadAsync
    \/ SchedExpired
    \/ SchedSync
    \/ SchedSyncReturn
    \/ SchedAsyncStart
    \/ SchedAsyncSkip
    \/ SchedNone
    \/ SchedTimer
    \/ \E c \in DOMAIN closePc : SchedStop(c)
    \/ SchedAck
    \/ \E c \in DOMAIN closePc : CloseBegin(c)
    \/ \E c \in DOMAIN closePc : CloseSend(c)
    \/ \E c \in DOMAIN closePc : CloseClearStop(c)
    \/ \E c \in DOMAIN closePc : CloseReturn(c)
    \/ SearchPosts
    \/ SearchPostsReturn

Spec == Init /\ [][Next]_vars

(***************************************************************************)
(* One evaluation of maybeRefreshJWT in isolation: the client has been     *)
(* constructed, the refresher is about to evaluate the policy, and the     *)
(* clock and the two expirations range over all values of the bounds.      *)
(***************************************************************************)
PolicyInit ==
    /\ clock \in 0..MaxClock
    /\ crashed = FALSE
    /\ describeCalls = 1
    /\ createCalls = 1
    /\ refreshCalls = 0
    /\ mainPc = "returned"
    /\ ncErr = NilErr
    /\ createResp = NoResponse
    /\ ready = TRUE
    /\ accessJwtExpire \in 1..MaxExp
    /\ refreshJwtExpire \in 1..MaxExp
    /\ auth = Session(Jwt(AppPassScope, accessJwtExpire), Jwt(RefreshScope, refreshJwtExpire))
    /\ jwtAsyncRefresh \in 0..jwtAsyncRefreshCap
    /\ jwtRefresherStop = "open"
    /\ refreshLock = {}
    /\ sched = SchedAt("m308")
    /\ rf = [g \in Goroutines |->
                IF g \in 1..jwtAsyncRefresh THEN [IdleFrame EXCEPT !.pc = "lock"] ELSE IdleFrame]
    /\ closePc = [c \in {"main"} |-> "idle"]
    /\ closeCalls = 0
    /\ closeReturns = 0
    /\ search = SearchIdle
    /\ parse = NoParse
    /\ pause = DefaultPause

PolicyNext ==
    \/ SchedReadNow
    \/ SchedReadInvalid
    \/ SchedReadSync
    \/ SchedReadAsync
    \/ SchedExpired
    \/ SchedSync
    \/ SchedAsyncStart
    \/ SchedAsyncSkip
    \/ SchedNone

PolicySpec == PolicyInit /\ [][PolicyNext]_vars

(***************************************************************************)
(* The two claim parsers in isolation: one token, drawn from every shape   *)
(* the parser can tell apart, is handed to parseAccessJwtClaims and to     *)
(* parseRefreshJwtClaims, and what each call returned is recorded.         *)
(***************************************************************************)
\* scope claims: the three the protocol uses, and none
ParseScopes == {AppPassScope, RefreshScope, MasterScope, ""}
ParseInputs ==
    {[parts |-> p, kind |-> "claims", scope |-> s, exp |-> e] :
        p \in 2..MaxParts, s \in ParseScopes, e \in 0..MaxExp}
        \cup {NoDotToken, BadB64Token, BadJsonToken}

\* what a call of a parser returned, or that it panicked
Parsed(p) == [called |-> TRUE, panic |-> p.panic, claims |-> p.claims, err |-> p.err]

ParseInit ==
    /\ clock = 0
    /\ crashed = FALSE
    /\ describeCalls = 0
    /\ createCalls = 0
    /\ refreshCalls = 0
    /\ mainPc = "describe"
    /\ ncErr = NilErr
    /\ createResp = NoResponse
    /\ ready = FALSE
    /\ accessJwtExpire = 0
    /\ refreshJwtExpire = 0
    /\ auth = NoSession
    /\ jwtAsyncRefresh = 0
    /\ jwtRefresherStop = "nil"
    /\ refreshLock = {}
    /\ sched = SchedAt("none")
    /\ rf = [g \in Goroutines |-> IdleFrame]
    /\ closePc = [c \in {"main"} |-> "idle"]
    /\ closeCalls = 0
    /\ closeReturns = 0
    /\ search = SearchIdle
    /\ \E jwt \in ParseInputs : parse = [NoParse EXCEPT !.jwt = jwt]
    /\ pause = DefaultPause

parseUnchanged ==
    <<clock, describeCalls, createCalls, refreshCalls, mainPc, ncErr, createResp, ready,
      accessJwtExpire, refreshJwtExpire, auth, jwtAsyncRefresh, jwtRefresherStop, refreshLock,
      sched, rf, closePc, closeCalls, closeReturns, search, pause>>

\* parseAccessJwtClaims(jwt); a panic ends the caller
ParseAccess ==
    /\ ~crashed
    /\ ~parse.access.called
    /\ parse' = [parse EXCEPT !.access = Parsed(parseAccessJwtClaims(parse.jwt))]
    /\ crashed' = parseAccessJwtClaims(parse.jwt).panic
    /\ UNCHANGED parseUnchanged

\* parseRefreshJwtClaims(jwt); a panic ends the caller
ParseRefresh ==
    /\ ~crashed
    /\ ~parse.refresh.called
    /\ parse' = [parse EXCEPT !.refresh = Parsed(parseRefreshJwtClaims(parse.jwt))]
    /\ crashed' = parseRefreshJwtClaims(parse.jwt).panic
    /\ UNCHANGED parseUnchanged

ParseNext ==
    \/ ParseAccess
    \/ ParseRefresh

ParseSpec == ParseInit /\ [][ParseNext]_vars

(***************************************************************************)
(* Two callers of Close() on one client.  NewClient has returned the       *)
(* client to a program that shares it between two goroutines; the refresher *)
(* has been started and has not run yet.  Each of the two may call Close() *)
(* once the other is anywhere inside its own call.                         *)
(***************************************************************************)
CloseCallers == {"main", "second"}

ConcurrentCloseInit ==
    /\ clock = 0
    /\ crashed = FALSE
    /\ describeCalls = 1
    /\ createCalls = 1
    /\ refreshCalls = 0
    /\ mainPc = "returned"
    /\ ncErr = NilErr
    /\ createResp = NoResponse
    /\ ready = TRUE
    /\ \E a \in AccessExpiries \ {0}, r \in RefreshExpiries \ {0} :
          /\ auth = Session(Jwt(AppPassScope, a), Jwt(RefreshScope, r))
          /\ accessJwtExpire = timeUnix(a)
          /\ refreshJwtExpire = timeUnix(r)
    /\ jwtAsyncRefresh = 0
    /\ jwtRefresherStop = "open"
    /\ refreshLock = {}
    /\ sched = SchedAt("m308")
    /\ rf = [g \in Goroutines |-> IdleFrame]
    /\ closePc = [c \in CloseCallers |-> "idle"]
    /\ closeCalls = 0
    /\ closeReturns = 0
    /\ search = SearchIdle
    /\ parse = NoParse
    /\ pause = DefaultPause

ConcurrentCloseNext ==
    \/ Tick
    \/ \E g \in Goroutines : RefreshBegin(g)
    \/ \E g \in Goroutines : RefreshResponse(g)
    \/ \E g \in Goroutines : RefreshWriteAuth(g)
    \/ \E g \in Goroutines : RefreshWriteAccessExpire(g)
    \/ \E g \in Goroutines : RefreshWriteRefreshExpire(g)
    \/ \E k \in AsyncIds : AsyncDone(k)
    \/ SchedReadNow
    \/ SchedReadInvalid
    \/ SchedReadSync
    \/ SchedReadAsync
    \/ SchedExpired
    \/ SchedSync
    \/ SchedSyncReturn
    \/ SchedAsyncStart
    \/ SchedAsyncSkip
    \/ SchedNone
    \/ SchedTimer
    \/ \E c \in DOMAIN closePc : SchedStop(c)
    \/ SchedAck
    \/ \E c \in DOMAIN closePc : CloseBegin(c)
    \/ \E c \in DOMAIN closePc : CloseSend(c)
    \/ \E c \in DOMAIN closePc : CloseClearStop(c)
    \/ \E c \in DOMAIN closePc : CloseReturn(c)

ConcurrentCloseSpec == ConcurrentCloseInit /\ [][ConcurrentCloseNext]_vars

(***************************************************************************)
(* The refresher against the clock.  The wait of the refresher's select    *)
(* lasts exactly the pause it was started with, a pause strictly shorter   *)
(* than the async window; nothing else lets time pass, so every            *)
(* refreshSession call is answered, and its result stored, before the      *)
(* next wake-up.  The transport answers every call with an access token    *)
(* valid for longer than the async window and a refresh token that         *)
(* outlasts the run.  The run starts when newClientInternal has started    *)
(* the refresher, with a login access token of any age.                    *)
(***************************************************************************)
\* the clock when the login has been made
TimedStart == 2
\* pauses strictly shorter than the async window
ShortPauses == 1..(jwtAsyncRefreshThreshold - 1)
\* validities longer than the async window
LongValidities == {jwtAsyncRefreshThreshold + 1, jwtAsyncRefreshThreshold + 3}
\* a refresh token that stays valid for the whole run
LastingRefreshJwt == Jwt(RefreshScope, MaxTime + 2)
\* what the transport answers to a refreshSession call made at `now`
PromptAnswers(now) ==
    {[err |-> NilErr, sess |-> Session(Jwt(AppPassScope, now + v), LastingRefreshJwt)] :
        v \in LongValidities}

TimedInit ==
    /\ clock = TimedStart
    /\ crashed = FALSE
    /\ describeCalls = 1
    /\ createCalls = 1
    /\ refreshCalls = 0
    /\ mainPc = "setReady"
    /\ ncErr = NilErr
    /\ createResp = NoResponse
    /\ ready = FALSE
    /\ \E a \in 1..(TimedStart + jwtAsyncRefreshThreshold + 1) :
          /\ auth = Session(Jwt(AppPassScope, a), LastingRefreshJwt)
          /\ accessJwtExpire = timeUnix(a)
    /\ refreshJwtExpire = timeUnix(LastingRefreshJwt.exp)
    /\ jwtAsyncRefresh = 0
    /\ jwtRefresherStop = "open"
    /\ refreshLock = {}
    /\ sched = SchedAt("m308")
    /\ rf = [g \in Goroutines |-> IdleFrame]
    /\ closePc = [c \in {"main"} |-> "idle"]
    /\ closeCalls = 0
    /\ closeReturns = 0
    /\ search = SearchIdle
    /\ parse = NoParse
    /\ pause \in ShortPauses

\* ServerRefreshSession returns one of the prompt answers; both tokens are
\* parsed (refresh token first)
PromptRefreshResponse(g) ==
    /\ ~crashed
    /\ rf[g].pc = "await"
    /\ \E resp \in PromptAnswers(clock) :
          LET refreshTokenClaims == parseATProtoClaims(resp.sess.RefreshJwt)
              accessTokenClaims == refreshParseAccess(resp.sess.AccessJwt)
              fail(err) == /\ RefreshReturn(g, err)
                           /\ refreshLock' = {}
                           /\ crashed' = crashed
              panic == /\ crashed' = TRUE
                       /\ refreshLock' = {}
                       /\ rf' = rf
          IN  IF resp.err # NilErr THEN fail(resp.err)
              ELSE IF refreshTokenClaims.panic THEN panic
              ELSE IF refreshTokenClaims.err # NilErr THEN fail(refreshTokenClaims.err)
              ELSE IF accessTokenClaims.panic THEN panic
              ELSE IF accessTokenClaims.err # NilErr THEN fail(accessTokenClaims.err)
              ELSE /\ rf' = [rf EXCEPT ![g] = [pc |-> "w397", cred |-> NoToken, sess |-> resp.sess, err |-> NilErr]]
                   /\ UNCHANGED <<refreshLock, crashed>>
    /\ UNCHANGED <<clock, search, parse, pause, transportVars, loginVars, clientVars, sched, closeVars>>

\* case <-time.After(pause): the pause has passed on the clock, with no
\* refreshJWT call under way, and the loop starts its next iteration
TimedWake ==
    /\ ~crashed
    /\ sched.pc = "select"
    /\ \A g \in Goroutines : rf[g].pc = "idle"
    /\ clock + pause <= MaxTime
    /\ clock' = clock + pause
    /\ sched' = SchedAt("m308")
    /\ UNCHANGED <<search, parse, pause, schedUnchanged>>

TimedNext ==
    \/ NewClientReturn
    \/ \E g \in Goroutines : RefreshBegin(g)
    \/ \E g \in Goroutines : PromptRefreshResponse(g)
    \/ \E g \in Goroutines : RefreshWriteAuth(g)
    \/ \E g \in Goroutines : RefreshWriteAccessExpire(g)
    \/ \E g \in Goroutines : RefreshWriteRefreshExpire(g)
    \/ \E k \in AsyncIds : AsyncDone(k)
    \/ SchedReadNow
    \/ SchedReadInvalid
    \/ SchedReadSync
    \/ SchedReadAsync
    \/ SchedSync
    \/ SchedSyncReturn
    \/ SchedAsyncStart
    \/ SchedNone
    \/ TimedWake
    \/ \E c \in DOMAIN closePc : SchedStop(c)
    \/ SchedAck
    \/ \E c \in DOMAIN closePc : CloseBegin(c)
    \/ \E c \in DOMAIN closePc : CloseSend(c)
    \/ \E c \in DOMAIN closePc : CloseClearStop(c)
    \/ \E c \in DOMAIN closePc : CloseReturn(c)

TimedSpec == TimedInit /\ [][TimedNext]_vars

(***************************************************************************)
(* Properties.                                                             *)
(***************************************************************************)

\* C1: Close() on a constructed manager eventually returns nil, also when
\* the scheduler has already terminated on an EXPIRED decision.  Only the
\* refresher's select receives from jwtRefresherStop, so a Close() whose
\* send is pending once the refresher has returned on EXPIRED never
\* returns; the claim requires that this state does not occur.
C1_CloseReturnsAfterExpired ==
    \A c \in DOMAIN closePc : ~(closePc[c] = "send" /\ sched.pc = "expired")

\* C2: after a first Close() has returned, a later Close() sends no stop
\* request (it goes from the nil test straight to its last statement, which
\* returns nil), and Ready() is false after the first and after the second.
C2_CloseIdempotent ==
    closeReturns >= 1 =>
        /\ Ready = FALSE
        /\ jwtRefresherStop = "nil"
        /\ \A c \in DOMAIN closePc : closePc[c] \in {"idle", "c270"}

C2_Witness == closeReturns = 2 /\ closePc["main"] = "idle" /\ sched.pc = "stopped"

\* C3: once NewClient has returned a client, Ready() is true as long as
\* Close() has not been called and the scheduler has made no EXPIRED
\* decision, and Ready() is false once a Close() has returned.
C3_ReadyWindow ==
    /\ (mainPc = "returned" /\ closeCalls = 0 /\ sched.pc # "expired") => Ready = TRUE
    /\ closeReturns >= 1 => Ready = FALSE

C3_Witness ==
    /\ mainPc = "returned"
    /\ closeCalls = 0
    /\ sched.pc = "select"
    /\ refreshJwtExpire > clock
    /\ clock > 0
    /\ Ready = TRUE

\* C4: a manager constructed with an already expired refresh token ends
\* not-ready under every interleaving of constructor and scheduler: once
\* the scheduler has terminated on EXPIRED and NewClient has returned,
\* Ready() is false.
C4_ExpiredLoginNotReady ==
    (sched.pc = "expired" /\ mainPc = "returned" /\ refreshCalls = 0) => Ready = FALSE

\* C5: the manager never goes back to ready: once the scheduler has marked
\* it not-ready on EXPIRED, or a Close() has marked it not-ready, no step
\* sets the ready flag to true.
C5_NeverReadyAgain ==
    [][((sched.pc = "expired" \/ closeReturns >= 1) /\ ready = FALSE) => ready' = FALSE]_vars

\* the createSession answer is a decodable access token with this property
LoginAccessScopeNot(scope) ==
    /\ createResp.err = NilErr
    /\ createResp.sess.AccessJwt.parts >= 2
    /\ createResp.sess.AccessJwt.kind = "claims"
    /\ createResp.sess.AccessJwt.scope # scope

LoginRejectedAsMaster ==
    /\ mainPc = "failed"
    /\ ErrorsIs(ncErr, ErrMasterCredentials)
    /\ sched.pc = "none"
    /\ auth = NoSession

\* C6 as stated: whenever createSession returns an access token whose scope
\* is not the application-password tag, NewClient fails with an error that
\* is ErrMasterCredentials, returns no client, starts no scheduler and
\* leaves the credential slot unwritten.
C6_Original == LoginAccessScopeNot(AppPassScope) => LoginRejectedAsMaster

\* C6 amended: the same for an access token whose expiry claim is non-zero
\* (a zero expiry is reported as the empty-expiration error before the
\* scope is looked at).
C6_MasterLoginRejected ==
    (LoginAccessScopeNot(AppPassScope) /\ createResp.sess.AccessJwt.exp # 0) => LoginRejectedAsMaster

C6_Witness ==
    /\ LoginAccessScopeNot(AppPassScope)
    /\ createResp.sess.AccessJwt.exp # 0
    /\ ncErr = MasterRejectedErr
    /\ mainPc = "failed"

\* C7: a refresh whose returned access token has a scope other than the
\* application-password tag fails and leaves the Session State unchanged:
\* no goroutine gets past the parsing in refreshJWT with such a token, and
\* the credential slot never holds one.
C7_RefreshScopeChecked ==
    /\ \A g \in Goroutines :
          rf[g].pc \in {"w397", "w403", "w404"} => rf[g].sess.AccessJwt.scope = AppPassScope
    /\ auth # NoSession => auth.AccessJwt.scope = AppPassScope

\* C8: the policy is EXPIRED whenever refreshExpiry <= now, equality
\* included, whatever the access expiry is.
C8_ExpiredAtOrBeforeNow ==
    (sched.pc = "decide" /\ refreshJwtExpire <= clock) => SchedPolicy = "EXPIRED"

\* C9: with the refresh token still valid (refreshExpiry > now) the policy
\* is SYNC iff accessExpiry - now < 2, ASYNC iff 2 <= accessExpiry - now < 5
\* and NONE iff accessExpiry - now >= 5.
C9_PolicyTable ==
    (sched.pc = "decide" /\ refreshJwtExpire > clock) =>
        LET left == accessJwtExpire - clock
        IN  /\ SchedPolicy = "SYNC" <=> left < 2
            /\ SchedPolicy = "ASYNC" <=> (2 <= left /\ left < 5)
            /\ SchedPolicy = "NONE" <=> left >= 5

C9_Witness ==
    /\ sched.pc = "decide"
    /\ refreshJwtExpire > clock
    /\ accessJwtExpire - clock = 2
    /\ SchedPolicy = "ASYNC"

\* detached refresh tasks that have been started and have not yet given
\* the single-flight slot back
AsyncInFlight == {k \in AsyncIds : rf[k].pc # "idle"}

\* C10: at most one asynchronous refresh is in flight at any time, so an
\* ASYNC decision taken while one is in flight starts no second task (and
\* with it no second refreshSession call).
C10_SingleFlight ==
    /\ Cardinality(AsyncInFlight) <= 1
    /\ Cardinality(AsyncInFlight) = jwtAsyncRefresh

C10_Witness ==
    /\ sched.pc = "decide"
    /\ SchedPolicy = "ASYNC"
    /\ \E k \in AsyncIds : rf[k].pc = "await"

(***************************************************************************)
(* C11: the single-flight slot is given back on every exit path of the     *)
(* background refresh task.  In a running process, a task whose refreshJWT *)
(* has returned (with nil, a transport error, a parse error or the         *)
(* session-expired error) can always take its message back out of          *)
(* jwtAsyncRefresh; once no task is left the channel is empty; and an      *)
(* ASYNC decision taken then starts a new refresh.                         *)
(***************************************************************************)
C11_GuardReleased ==
    ~crashed =>
        /\ \A k \in AsyncIds : rf[k].pc = "ret" => ENABLED AsyncDone(k)
        /\ AsyncInFlight = {} => jwtAsyncRefresh = 0
        /\ (sched.pc = "decide" /\ SchedPolicy = "ASYNC" /\ AsyncInFlight = {})
              => ENABLED SchedAsyncStart

\* a background refresh has come back with a transport error and still
\* holds the slot, after an earlier refreshSession call
C11_Witness ==
    /\ ~crashed
    /\ refreshCalls >= 2
    /\ \E k \in AsyncIds : rf[k].pc = "ret" /\ rf[k].err = TransportErr

\* the Session State: the credential slot and the two expirations
sessionState == <<auth, accessJwtExpire, refreshJwtExpire>>

(***************************************************************************)
(* C12: a failed refresh changes nothing.  From the moment a refreshJWT    *)
(* call holds the lock and has sent its request until it returns an error  *)
(* (transport failure, undecodable token, token without expiry), and also  *)
(* when it returns the session-expired error without sending anything, no  *)
(* step changes the credential slot or either expiration.                  *)
(***************************************************************************)
C12_FailedRefreshChangesNothing ==
    [][\A g \in Goroutines :
          (rf[g].pc \in {"lock", "await"} /\ rf'[g].pc \in {"await", "ret"})
              => UNCHANGED sessionState]_vars

\* a refresh has just failed on a token without an expiry, with a session
\* in the credential slot
C12_Witness ==
    /\ auth # NoSession
    /\ \E g \in Goroutines : rf[g].pc = "ret" /\ rf[g].err = EmptyExpErr

(***************************************************************************)
(* C13: a transient refresh failure is not terminal.  The step in which a  *)
(* refreshJWT call fails with a transport error leaves c.ready alone and   *)
(* the lock free for the next call, and when the failed call was the       *)
(* inline one of the SYNC branch the refresher goes on to its select, from *)
(* where the next timer tick evaluates the policy again.                   *)
(***************************************************************************)
C13_TransientFailureNotTerminal ==
    [][/\ \A g \in Goroutines :
             (rf[g].pc = "await" /\ rf'[g].pc = "ret" /\ rf'[g].err = TransportErr)
                 => ready' = ready /\ refreshLock' = {} /\ sched' = sched
       /\ (sched.pc = "sync" /\ rf[Refresher].pc = "ret" /\ rf[Refresher].err = TransportErr
              /\ sched'.pc # "sync")
                 => sched'.pc = "select" /\ ready' = ready
       /\ \A k \in AsyncIds :
             (rf[k].pc = "ret" /\ rf[k].err = TransportErr /\ rf'[k].pc # "ret")
                 => ready' = ready /\ sched' = sched /\ jwtAsyncRefresh' = jwtAsyncRefresh - 1]_vars

\* the inline refresh of the SYNC branch has failed with a transport error
\* while the client is ready
C13_Witness ==
    /\ ready
    /\ sched.pc = "sync"
    /\ rf[Refresher].pc = "ret"
    /\ rf[Refresher].err = TransportErr

(***************************************************************************)
(* C14: when the inline refreshJWT of the SYNC branch reports that the     *)
(* session has expired, the refresher ends in that same cycle and the      *)
(* client is no longer ready.                                              *)
(***************************************************************************)
C14_SyncExpiredTerminates ==
    [][(/\ sched.pc = "sync"
        /\ rf[Refresher].pc = "ret"
        /\ ErrorsIs(rf[Refresher].err, ErrSessionExpired)
        /\ sched'.pc # "sync")
           => sched'.pc = "expired" /\ ready' = FALSE]_vars

(***************************************************************************)
(* C15: refreshJWT re-checks the refresh token under the lock: when        *)
(* refreshJwtExpire is at or before the clock it returns an error that is  *)
(* ErrSessionExpired, sends no refreshSession request and leaves the       *)
(* Session State alone.                                                    *)
(***************************************************************************)
C15_ExecutorRecheck ==
    [][\A g \in Goroutines :
          (rf[g].pc = "lock" /\ rf'[g].pc # "lock" /\ refreshJwtExpire <= clock)
              => /\ rf'[g].pc = "ret"
                 /\ ErrorsIs(rf'[g].err, ErrSessionExpired)
                 /\ refreshCalls' = refreshCalls
                 /\ UNCHANGED sessionState]_vars

(***************************************************************************)
(* C16: every policy evaluation reads the two expirations from one and the *)
(* same installed token pair.  maybeRefreshJWT reads refreshJwtExpire      *)
(* first and accessJwtExpire after it (twice); refreshJWT stores           *)
(* accessJwtExpire first and refreshJwtExpire after it.  So between the    *)
(* scheduler's read of the refresh expiry and its last read of the access  *)
(* expiry no refresh may store the access expiry of a new pair: the        *)
(* evaluation would combine it with the refresh expiry of the pair before. *)
(* Only stores that change the access expiry, with a different refresh     *)
(* expiry still to be stored, are counted.                                  *)
(***************************************************************************)
C16_SnapshotReads ==
    [][sched.pc \in {"m310", "m311"}
          => \A g \in Goroutines :
                ~(/\ rf[g].pc = "w403"
                  /\ rf'[g].pc = "w404"
                  /\ accessJwtExpire' # accessJwtExpire
                  /\ timeUnix(parseATProtoClaims(rf[g].sess.RefreshJwt).claims.ExpiresAt)
                        # refreshJwtExpire)]_vars

\* the goroutines inside refreshJWT between the request and the last store
RefreshInProgress == {g \in Goroutines : rf[g].pc \in {"await", "w397", "w403", "w404"}}

(***************************************************************************)
(* C17: the inline refresh of the SYNC branch and a background refresh     *)
(* serialize on refreshLock.  In a running process at most one goroutine   *)
(* is between its refreshSession request and its last store, and it is the *)
(* holder of the lock; a refresh waiting for the lock can proceed as soon  *)
(* as nobody is inside.                                                    *)
(***************************************************************************)
C17_RefreshesSerialize ==
    ~crashed =>
        /\ Cardinality(RefreshInProgress) <= 1
        /\ refreshLock = RefreshInProgress
        /\ RefreshInProgress = {}
              => \A g \in Goroutines : rf[g].pc = "lock" => ENABLED RefreshBegin(g)

\* a background refresh has stored its pair and returned; the inline
\* refresh that waited for the lock has made its own call and is storing
\* its own pair
C17_Witness ==
    /\ ~crashed
    /\ refreshCalls >= 2
    /\ rf[Refresher].pc = "w404"
    /\ \E k \in AsyncIds : rf[k].pc = "ret" /\ rf[k].err = NilErr

\* a SearchPosts request leaves for the transport in this step
SearchPostsSent == search.pc = "idle" /\ search'.pc = "sent"

(***************************************************************************)
(* C18: once the policy has taken the EXPIRED branch (the refresher has    *)
(* returned on it), no SearchPosts request is sent any more: the call      *)
(* returns ErrSessionExpired instead.                                      *)
(***************************************************************************)
C18_NoCallAfterExpired ==
    [][SearchPostsSent => sched.pc # "expired"]_vars

(***************************************************************************)
(* C19: while the inline refresh of the SYNC branch is in progress (from   *)
(* the branch being taken until refreshJWT has returned), no SearchPosts   *)
(* request is sent: new calls wait for the refresh to finish.              *)
(***************************************************************************)
C19_CallsWaitForSyncRefresh ==
    [][SearchPostsSent => ~(sched.pc = "sync" /\ rf[Refresher].pc # "ret")]_vars

\* the access token has at least jwtAsyncRefreshThreshold left and the
\* refresh token has not reached its expiry
AmpleValidity == accessJwtExpire - clock >= jwtAsyncRefreshThreshold /\ refreshJwtExpire > clock

(***************************************************************************)
(* C20 as stated: while the access token has at least 5 minutes left and   *)
(* the refresh token is valid, the policy evaluation issues no             *)
(* refreshSession call (here: the inline call of the SYNC branch).         *)
(***************************************************************************)
C20_Original ==
    [][(rf[Refresher].pc = "lock" /\ rf'[Refresher].pc = "await") => ~AmpleValidity]_vars

(***************************************************************************)
(* C20, amended: a policy evaluation that reads the expirations while the  *)
(* access token has at least 5 minutes left and the refresh token is valid *)
(* finds no need for a refresh, and an evaluation that found none takes    *)
(* the NONE branch: it starts no refresh and issues no call, whatever the  *)
(* clock reads and however many cycles have run.                           *)
(***************************************************************************)
C20_AmpleValidityNoRefresh ==
    [][/\ (sched.pc = "m309" /\ sched'.pc = "m310" /\ refreshJwtExpire > clock)
            => ~sched'.invalidRefreshJwt
       /\ (sched.pc = "m310" /\ sched'.pc = "m311"
              /\ accessJwtExpire - clock >= jwtAsyncRefreshThreshold)
            => ~sched'.needSyncRefresh
       /\ (sched.pc = "m311" /\ sched'.pc = "decide"
              /\ accessJwtExpire - clock >= jwtAsyncRefreshThreshold)
            => ~sched'.needAsyncRefresh
       /\ (sched.pc = "decide" /\ sched' # sched /\ ~sched.invalidRefreshJwt
              /\ ~sched.needSyncRefresh /\ ~sched.needAsyncRefresh)
            => /\ sched'.pc = "select"
               /\ UNCHANGED <<rf, jwtAsyncRefresh, refreshCalls, ready>>]_vars

\* after an earlier refresh and with the clock advanced, an evaluation has
\* read the expirations of a token with ample validity and is about to
\* take the NONE branch
C20_Witness ==
    /\ ~crashed
    /\ clock >= 2
    /\ refreshCalls >= 1
    /\ AmpleValidity
    /\ sched.pc = "decide"
    /\ SchedPolicy = "NONE"

C23_DetachedRefreshCompletes ==
    [][(closeReturns >= 1 /\ AsyncInFlight # {} /\ ~crashed) => ~crashed']_vars

(***************************************************************************)
(* C24: the result of a background refresh that completes after Close()    *)
(* has returned is discarded: once Close() has returned, no step changes   *)
(* the credential slot or either expiration.                               *)
(***************************************************************************)
C24_ResultDiscardedAfterClose ==
    [][closeReturns >= 1 => UNCHANGED sessionState]_vars

(***************************************************************************)
(* C25: the refreshSession request presents the refresh token: while a     *)
(* refreshJWT call waits for the answer (it holds the lock), the           *)
(* credential it sent is the RefreshJwt of the credential slot, and not    *)
(* the AccessJwt.                                                          *)
(***************************************************************************)
C25_RefreshPresentsRefreshToken ==
    \A g \in Goroutines :
        rf[g].pc = "await" => rf[g].cred = auth.RefreshJwt /\ rf[g].cred # auth.AccessJwt

\* a second refreshSession request is under way: the token it presents is
\* the one an earlier call may have installed
C25_Witness ==
    /\ ~crashed
    /\ refreshCalls >= 2
    /\ \E g \in Goroutines : rf[g].pc = "await" /\ rf[g].cred = auth.RefreshJwt /\ rf[g].cred # NoToken

\* after the step the Session State holds exactly the session s: its four
\* fields in the credential slot and the expiry claims of its two tokens
Installed(s) ==
    /\ auth' = s
    /\ accessJwtExpire' = timeUnix(s.AccessJwt.exp)
    /\ refreshJwtExpire' = timeUnix(s.RefreshJwt.exp)

(***************************************************************************)
(* C26: when a login has set up the client, and when a refreshJWT call     *)
(* returns nil, the credential slot holds the access token, refresh token, *)
(* handle and did of the session that call received, and the two stored    *)
(* expirations are the expiry claims of exactly those two tokens.          *)
(***************************************************************************)
C26_SessionInstalled ==
    [][/\ (mainPc = "init" /\ mainPc' = "setReady") => Installed(createResp.sess)
       /\ \A g \in Goroutines :
             (rf[g].pc = "w404" /\ rf'[g].pc = "ret") => Installed(rf[g].sess)]_vars

\* a refresh has just returned nil with its pair installed, and the pair's
\* two expiries differ
C26_Witness ==
    /\ refreshCalls >= 1
    /\ accessJwtExpire # refreshJwtExpire
    /\ accessJwtExpire = timeUnix(auth.AccessJwt.exp)
    /\ refreshJwtExpire = timeUnix(auth.RefreshJwt.exp)
    /\ \E g \in Goroutines : rf[g].pc = "ret" /\ rf[g].err = NilErr

\* the token under study carries claims the parser can reach
HasClaims(jwt) == jwt.parts >= 2 /\ jwt.kind = "claims"

(***************************************************************************)
(* C27: a token that does not have three dot-separated segments, such as a *)
(* string with no dot, makes the parser return an error; the call never    *)
(* panics.                                                                 *)
(***************************************************************************)
C27_ParserNeverPanics ==
    /\ parse.access.called => ~parse.access.panic
    /\ parse.refresh.called => ~parse.refresh.panic

(***************************************************************************)
(* C28: the scope check belongs to the access path only.  A token with a   *)
(* scope other than the application-password tag and a non-zero expiry is  *)
(* rejected by parseAccessJwtClaims with an error that is                  *)
(* ErrMasterCredentials, and accepted by parseRefreshJwtClaims, which      *)
(* returns the token's scope and expiry.                                   *)
(***************************************************************************)
C28_ScopeCheckAccessOnly ==
    (HasClaims(parse.jwt) /\ parse.jwt.scope # AppPassScope /\ parse.jwt.exp # 0)
        => /\ parse.access.called
                => /\ ~parse.access.panic
                   /\ ErrorsIs(parse.access.err, ErrMasterCredentials)
                   /\ parse.access.claims = NoClaims
           /\ parse.refresh.called
                => /\ ~parse.refresh.panic
                   /\ parse.refresh.err = NilErr
                   /\ parse.refresh.claims = [Scope |-> parse.jwt.scope, ExpiresAt |-> parse.jwt.exp]

\* one and the same refresh-scoped token has gone through both parsers
C28_Witness ==
    /\ parse.jwt = Jwt(RefreshScope, MaxExp)
    /\ parse.access.called
    /\ parse.refresh.called

(***************************************************************************)
(* C29: a token whose claims have no expiry (exp is 0 or absent) fails     *)
(* with the empty-expiration error through both parsers, whatever its      *)
(* scope; with a scope other than the application-password tag the error   *)
(* is still the empty-expiration one and not ErrMasterCredentials.         *)
(***************************************************************************)
C29_MissingExpiry ==
    (HasClaims(parse.jwt) /\ parse.jwt.exp = 0)
        => /\ parse.access.called
                => /\ parse.access.err = EmptyExpErr
                   /\ ~ErrorsIs(parse.access.err, ErrMasterCredentials)
                   /\ parse.access.claims = NoClaims
           /\ parse.refresh.called
                => /\ parse.refresh.err = EmptyExpErr
                   /\ parse.refresh.claims = NoClaims

\* a master-scoped token without expiry has gone through both parsers
C29_Witness ==
    /\ parse.jwt = Jwt(MasterScope, 0)
    /\ parse.access.called
    /\ parse.refresh.called

(***************************************************************************)
(* C30: the stop handshake is ordered.  The refresher is about to send its *)
(* acknowledgment only when it has received the stop request of a Close()  *)
(* that now waits for it; a Close() is past `<-stopc` only when the        *)
(* refresher has acknowledged and returned; and once a Close() has         *)
(* returned the refresher has returned for good: it is not evaluating the  *)
(* policy and is not inside a refresh.                                     *)
(***************************************************************************)
C30_StopHandshakeOrdered ==
    /\ sched.pc = "ack" => closePc[sched.stopc] = "recv"
    /\ \A c \in DOMAIN closePc :
          /\ closePc[c] = "recv" => sched.pc = "ack" /\ sched.stopc = c
          /\ closePc[c] \in {"c267", "c270"} => sched.pc = "stopped"
    /\ closeReturns >= 1 => sched.pc = "stopped" /\ rf[Refresher] = IdleFrame

\* Close() has returned after a handshake with a refresher that had been
\* through at least one refresh
C30_Witness ==
    /\ closeReturns >= 1
    /\ refreshCalls >= 1
    /\ sched.pc = "stopped"
    /\ \A c \in DOMAIN closePc : closePc[c] = "idle"

(***************************************************************************)
(* C31: Close() does not interrupt the inline refresh of the SYNC branch.  *)
(* While the refresher is inside refreshJWT the stop request of a Close()  *)
(* stays pending (the refresher is not at its select); and whenever a stop *)
(* request has been received or acknowledged, the refresher's refreshJWT   *)
(* call has returned: it is not waiting for the transport, not between its *)
(* three stores, and does not hold the lock.                               *)
(***************************************************************************)
C31_CloseWaitsForSyncRefresh ==
    /\ \A c \in DOMAIN closePc :
          /\ (closePc[c] = "send" /\ sched.pc = "sync") => ~ENABLED SchedStop(c)
          /\ closePc[c] \in {"recv", "c267", "c270"}
                => rf[Refresher] = IdleFrame /\ Refresher \notin refreshLock
    /\ sched.pc \in {"ack", "stopped"}
          => rf[Refresher] = IdleFrame /\ Refresher \notin refreshLock

\* the stop request of a Close() is pending while the inline refresh has
\* stored the new credentials and not yet the expirations
C31_Witness ==
    /\ ~crashed
    /\ closePc["main"] = "send"
    /\ sched.pc = "sync"
    /\ rf[Refresher].pc = "w403"

(***************************************************************************)
(* C32: the ASYNC branch never blocks the refresher.  In a running process *)
(* an ASYNC decision can always be carried out at once (the task is        *)
(* detached, or skipped when the slot is taken); the refresher waits       *)
(* inside maybeRefreshJWT only for its own inline refreshJWT, never for a  *)
(* detached task; and at its select it takes the stop request of a pending *)
(* Close() and acknowledges it whatever a detached task is doing, so that  *)
(* Close() can go on to return.                                            *)
(***************************************************************************)
C32_AsyncNeverBlocksRefresher ==
    ~crashed =>
        /\ (sched.pc = "decide" /\ SchedPolicy = "ASYNC")
              => ENABLED SchedAsyncStart \/ ENABLED SchedAsyncSkip
        /\ sched.pc = "sync" => rf[Refresher].pc # "idle"
        /\ \A c \in DOMAIN closePc :
              /\ (closePc[c] = "send" /\ sched.pc = "select") => ENABLED SchedStop(c)
              /\ closePc[c] = "recv" => ENABLED SchedAck
              /\ closePc[c] = "c267" => ENABLED CloseClearStop(c)
              /\ closePc[c] = "c270" => ENABLED CloseReturn(c)

\* Close() has returned while the refreshSession call of a detached task
\* is still waiting for its answer
C32_Witness ==
    /\ ~crashed
    /\ closeReturns >= 1
    /\ sched.pc = "stopped"
    /\ \E k \in AsyncIds : rf[k].pc = "await"

(***************************************************************************)
(* C33: the SYNC branch is not subject to the single-flight slot.  An      *)
(* evaluation that finds the access token with less than 2 minutes left    *)
(* and the refresh token valid calls refreshJWT inline as its next step,   *)
(* before the refresher gets to its select, whether jwtAsyncRefresh is     *)
(* empty or taken; it neither takes nor gives back the slot and leaves the *)
(* detached task alone.                                                    *)
(***************************************************************************)
C33_SyncIgnoresGuard ==
    [][(/\ sched.pc = "decide"
        /\ accessJwtExpire - clock < jwtSyncRefreshThreshold
        /\ refreshJwtExpire > clock)
          => /\ sched'.pc = "sync"
             /\ rf'[Refresher].pc = "lock"
             /\ \A k \in AsyncIds : rf'[k] = rf[k]
             /\ jwtAsyncRefresh' = jwtAsyncRefresh]_vars

\* the inline refresh has been called while a detached task holds the slot
C33_Witness ==
    /\ sched.pc = "sync"
    /\ rf[Refresher].pc = "lock"
    /\ jwtAsyncRefresh = jwtAsyncRefreshCap
    /\ \E k \in AsyncIds : rf[k].pc = "lock"
    /\ accessJwtExpire - clock < jwtSyncRefreshThreshold
    /\ refreshJwtExpire > clock

(***************************************************************************)
(* C34: once newClientInternal has started the refresher, the credential   *)
(* slot and the two expirations are written only by a goroutine that holds *)
(* refreshLock (a refreshJWT call between its answer and its return); and  *)
(* the EXPIRED branch, the NONE branch and the ASYNC branch that finds the *)
(* slot taken write none of the three.                                     *)
(***************************************************************************)
C34_WritesUnderLock ==
    [][/\ (sched.pc # "none" /\ sessionState' # sessionState)
            => \E g \in refreshLock :
                  /\ rf[g].pc \in {"w397", "w403", "w404"}
                  /\ rf'[g].pc # rf[g].pc
       /\ (/\ sched.pc = "decide"
           /\ sched' # sched
           /\ \/ SchedPolicy \in {"EXPIRED", "NONE"}
              \/ SchedPolicy = "ASYNC" /\ ~asyncSlotFree(jwtAsyncRefresh))
            => UNCHANGED sessionState]_vars

\* a detached task holds the lock and has replaced the credentials while
\* the refresher is about to skip an ASYNC decision
C34_Witness ==
    /\ ~crashed
    /\ sched.pc = "decide"
    /\ SchedPolicy = "ASYNC"
    /\ ~asyncSlotFree(jwtAsyncRefresh)
    /\ \E k \in AsyncIds :
          /\ refreshLock = {k}
          /\ rf[k].pc = "w403"
          /\ auth = rf[k].sess
          /\ accessJwtExpire # timeUnix(auth.AccessJwt.exp)

(***************************************************************************)
(* C35: two Close() calls running concurrently on one client both return:  *)
(* once the refresher has acknowledged a stop request and returned, no     *)
(* caller is left at its send on the stop channel (nobody would receive    *)
(* it), be it on the channel or on the nil the other call has stored in    *)
(* c.jwtRefresherStop.                                                     *)
(***************************************************************************)
C35_ConcurrentClosesReturn ==
    sched.pc = "stopped" => \A c \in DOMAIN closePc : closePc[c] \notin {"send", "sendNil"}

(***************************************************************************)
(* C36: no stale refresh token is presented.  A refreshJWT call that waits *)
(* for the lock has not yet taken any token; the token a pending           *)
(* refreshSession request presents is the refresh token of the credential  *)
(* slot, the one whose expiry is stored in refreshJwtExpire, that is the   *)
(* refresh token of the pair installed last; and in a running process the *)
(* sender holds the lock, so that pair is not replaced while the request   *)
(* is pending.                                                             *)
(***************************************************************************)
C36_NoStaleRefreshToken ==
    \A g \in Goroutines :
        /\ rf[g].pc = "lock" => rf[g].cred = NoToken
        /\ rf[g].pc = "await"
              => /\ rf[g].cred = auth.RefreshJwt
                 /\ timeUnix(rf[g].cred.exp) = refreshJwtExpire
                 /\ ~crashed => refreshLock = {g}
                 /\ \A h \in Goroutines \ {g} : rf[h].pc \notin {"await", "w397", "w403", "w404"}

\* the inline refresh had to wait for the lock while a detached task made
\* its call and installed a new pair; its own request is now pending
C36_Witness ==
    /\ ~crashed
    /\ sched.pc = "sync"
    /\ rf[Refresher].pc = "await"
    /\ rf[Refresher].cred = auth.RefreshJwt
    /\ refreshCalls >= 2
    /\ \E k \in AsyncIds : rf[k].pc = "ret" /\ rf[k].err = NilErr

(***************************************************************************)
(* C37: the refresh request is made on a copy; the shared credential slot  *)
(* stays as it is.  The step that sends the refreshSession request, and    *)
(* every step taken while a request is pending, leaves the slot alone; and *)
(* a SearchPosts request sent while a refresh request is pending carries   *)
(* the access token of the slot, which is not the token the refresh        *)
(* request presents.                                                       *)
(***************************************************************************)
C37_SlotUntouchedDuringRefresh ==
    [][/\ \A g \in Goroutines :
             (rf[g].pc \in {"lock", "await"} /\ rf'[g].pc = "await") => auth' = auth
       /\ \A g \in Goroutines :
             (SearchPostsSent /\ rf[g].pc = "await")
                 => /\ search'.cred = auth.AccessJwt
                    /\ search'.cred # rf[g].cred
                    /\ search'.cred # auth.RefreshJwt]_vars

\* a SearchPosts request has gone out while a refresh request is pending
C37_Witness ==
    /\ ~crashed
    /\ search.pc = "sent"
    /\ search.cred = auth.AccessJwt
    /\ \E g \in Goroutines : rf[g].pc = "await" /\ rf[g].cred = auth.RefreshJwt /\ search.cred # rf[g].cred

(***************************************************************************)
(* C38: the refresher evaluates the policy as soon as it is started,       *)
(* before its first wait.  Its first step reads the clock for an           *)
(* evaluation; the reads follow one another without a wait; the decision   *)
(* is carried out at once (EXPIRED: not ready and the refresher returns;   *)
(* SYNC: the inline refreshJWT is called; ASYNC: a task is detached unless *)
(* the slot is taken); and the refresher gets to its select only from a    *)
(* decision or from the return of the inline refresh.                      *)
(***************************************************************************)
C38_EvaluatesBeforeFirstWait ==
    [][/\ (sched.pc = "none" /\ sched' # sched)
            => /\ sched'.pc = "m308"
               /\ accessJwtExpire' = timeUnix(createResp.sess.AccessJwt.exp)
               /\ refreshJwtExpire' = timeUnix(createResp.sess.RefreshJwt.exp)
       /\ (sched.pc = "m308" /\ sched' # sched) => sched'.pc = "m309"
       /\ (sched.pc = "m309" /\ sched' # sched) => sched'.pc = "m310"
       /\ (sched.pc = "m310" /\ sched' # sched) => sched'.pc = "m311"
       /\ (sched.pc = "m311" /\ sched' # sched) => sched'.pc = "decide"
       /\ (sched.pc = "decide" /\ sched' # sched /\ sched.invalidRefreshJwt)
            => sched'.pc = "expired" /\ ready' = FALSE /\ refreshCalls' = refreshCalls
       /\ (sched.pc = "decide" /\ sched' # sched /\ ~sched.invalidRefreshJwt /\ sched.needSyncRefresh)
            => sched'.pc = "sync" /\ rf'[Refresher].pc = "lock"
       /\ (sched.pc = "decide" /\ sched' # sched /\ ~sched.invalidRefreshJwt
              /\ ~sched.needSyncRefresh /\ sched.needAsyncRefresh /\ jwtAsyncRefresh = 0)
            => \E k \in AsyncIds : rf[k].pc = "idle" /\ rf'[k].pc = "lock"
       /\ (sched.pc # "select" /\ sched'.pc = "select") => sched.pc \in {"decide", "sync"}]_vars

\* the background refresh that the login tokens called for is under way
\* before NewClient has returned and before the clock has moved
C38_Witness ==
    /\ ~crashed
    /\ mainPc = "setReady"
    /\ clock = 0
    /\ sched.pc = "select"
    /\ accessJwtExpire - clock < jwtAsyncRefreshThreshold
    /\ refreshCalls = 1
    /\ \E k \in AsyncIds : rf[k].pc = "await"

(***************************************************************************)
(* C39: refreshLock is released on every exit path of refreshJWT.  A call  *)
(* that has returned, with nil or with any error (session expired,         *)
(* transport error, undecodable or expiry-less token), does not hold the   *)
(* lock; a call that has not yet got past Lock() does not hold it; a       *)
(* process that died in a panic left no lock behind; and in a running      *)
(* process a call that waits for the lock after another has failed can     *)
(* take it unless a third call is inside.                                  *)
(***************************************************************************)
C39_LockReleasedOnEveryExit ==
    /\ \A g \in Goroutines : rf[g].pc \in {"idle", "lock", "ret"} => g \notin refreshLock
    /\ crashed => refreshLock = {}
    /\ ~crashed =>
          \A g, h \in Goroutines :
              (rf[g].pc = "ret" /\ rf[g].err # NilErr /\ rf[h].pc = "lock")
                  => (ENABLED RefreshBegin(h) \/ \E i \in Goroutines \ {g, h} : i \in refreshLock)

\* a background refresh has failed on a token without expiry and has not
\* yet given its slot back, while the inline refresh already holds the lock
C39_Witness ==
    /\ ~crashed
    /\ refreshLock = {Refresher}
    /\ rf[Refresher].pc = "await"
    /\ \E k \in AsyncIds : rf[k].pc = "ret" /\ rf[k].err = EmptyExpErr

(***************************************************************************)
(* C40: with a pause strictly shorter than the async window, a refresh     *)
(* token that stays valid and refreshSession calls answered at once with   *)
(* an access token valid for longer than the async window, the access      *)
(* token of the credential slot is not past its expiry at any wake-up of   *)
(* the refresher from its wait while Ready() is true, and neither is the   *)
(* stored accessJwtExpire.  Under these conditions no evaluation decides   *)
(* EXPIRED and none finds the single-flight slot taken.                    *)
(***************************************************************************)
C40_AccessTokenNeverStale ==
    [][/\ (sched.pc = "select" /\ sched'.pc = "m308" /\ Ready)
            => /\ timeUnix(auth'.AccessJwt.exp) >= clock'
               /\ accessJwtExpire' >= clock'
       /\ sched.pc = "decide"
            => /\ SchedPolicy # "EXPIRED"
               /\ SchedPolicy = "ASYNC" => asyncSlotFree(jwtAsyncRefresh)]_vars

\* the refresher has woken up, after at least two refreshes, with Ready()
\* true and a token that is inside the async window once more
C40_Witness ==
    /\ Ready
    /\ sched.pc = "m308"
    /\ clock > TimedStart
    /\ refreshCalls >= 2
    /\ accessJwtExpire - clock < jwtAsyncRefreshThreshold
    /\ accessJwtExpire >= clock

====
